---- MODULE Spec2Model ----
(***************************************************************************)
(* A model of textattack/shared/attacked_text.py: the AttackedText         *)
(* snapshot, its constructor, the rewrite operations                       *)
(* (replace_words_at_indices, replace_word_at_index, delete_word_at_index, *)
(* replace_new_words), the span locator (_text_index_of_word_index) and    *)
(* __eq__.                                                                 *)
(*                                                                         *)
(* Texts are sequences of one-character strings.  Offsets and word indices *)
(* are 0-based as in the Python source; position k of a Python sequence is *)
(* element k+1 of the TLA+ sequence that models it.                        *)
(* Only single-segment inputs (one "text" key) are modelled, so the joined *)
(* text, the SPLIT_TOKEN-joined text and the segment value coincide.       *)
(* Arguments are always ints and strs: the TypeError paths are not taken.  *)
(***************************************************************************)
EXTENDS Integers, Sequences, FiniteSets

VARIABLES
    chain,  \* the lineage: chain[1] is the root, chain[k+1] was derived from chain[k]
    calls,  \* calls[k] is the call on chain[k] that returned chain[k+1]
    call,   \* the most recent call made on the newest snapshot
    err     \* how that call ended: "ok" or the exception it raised

vars == <<chain, calls, call, err>>

----------------------------------------------------------------------------
(* Bounds of the model. *)

\* Longest raw input string given to the constructor of a root.
MaxTextLen == 3

\* Largest number of successful rewrites in one lineage.
MaxChain == 2

----------------------------------------------------------------------------
(* Characters and small helpers. *)

Space == " "

Separators == {" ", "."}

Letters == {"a", "b"}

Alphabet == Letters \cup Separators

\* The documentation's example sentence, "The quick fox jumps."
DocExample ==
    <<"T", "h", "e", " ", "q", "u", "i", "c", "k", " ",
      "f", "o", "x", " ", "j", "u", "m", "p", "s", ".">>

MinOf(S) == CHOOSE x \in S : \A y \in S : x <= y

Last(s) == s[Len(s)]

\* Python slices s[:n] and s[n:].
Take(s, n) == SubSeq(s, 1, n)

Drop(s, n) == SubSeq(s, n + 1, Len(s))

\* str.lower() on one character.
Lower(c) ==
    CASE c = "T" -> "t"
      [] c = "A" -> "a"
      [] c = "B" -> "b"
      [] OTHER -> c

LowerText(s) == [k \in 1..Len(s) |-> Lower(s[k])]

\* str.find(sub, start): the lowest offset >= start where sub occurs, else -1.
Find(text, sub, start) ==
    LET hits == {p \in start..(Len(text) - Len(sub)) :
                    SubSeq(text, p + 1, p + Len(sub)) = sub}
    IN IF hits = {} THEN -1 ELSE MinOf(hits)

\* str.strip() (the only whitespace of the alphabet is the space).
RECURSIVE LStrip(_)
LStrip(s) == IF s # <<>> /\ Head(s) = Space THEN LStrip(Tail(s)) ELSE s

RECURSIVE RStrip(_)
RStrip(s) ==
    IF s # <<>> /\ Last(s) = Space THEN RStrip(Take(s, Len(s) - 1)) ELSE s

Strip(s) == RStrip(LStrip(s))

----------------------------------------------------------------------------
(* The tokenizer (utils.words_from_text): the maximal runs of word         *)
(* characters of the text, in order.                                       *)

IsWordChar(c) == c \notin Separators

RECURSIVE WordsFrom(_, _, _)
WordsFrom(s, word, words) ==
    IF s = <<>>
    THEN IF word = <<>> THEN words ELSE Append(words, word)
    ELSE IF IsWordChar(Head(s))
         THEN WordsFrom(Tail(s), Append(word, Head(s)), words)
         ELSE WordsFrom(Tail(s), <<>>,
                        IF word = <<>> THEN words ELSE Append(words, word))

words_from_text(s) == WordsFrom(s, <<>>, <<>>)

----------------------------------------------------------------------------
(* The snapshot and its constructor. *)

\* attack_attrs=None
NoAttrs ==
    [keys |-> {},
     original_index_map |-> <<>>,
     modified_indices |-> {},
     newly_modified_indices |-> {},
     previous_attacked_text |-> 0]

\* numpy.arange(n)
Arange(n) == [k \in 1..n |-> k - 1]

\* AttackedText.__init__ .  `keys` is the key set of attack_attrs; a field
\* whose key is absent holds a placeholder.  previous_attacked_text is the
\* position in `chain` of the parent snapshot.
AttackedText(text_input, attack_attrs) ==
    LET text == Strip(text_input)
        words == words_from_text(text)
    IN [text |-> text,
        words |-> words,
        keys |-> attack_attrs.keys \cup {"original_index_map", "modified_indices"},
        original_index_map |->
            IF "original_index_map" \in attack_attrs.keys
            THEN attack_attrs.original_index_map
            ELSE Arange(Len(words)),
        modified_indices |->
            IF "modified_indices" \in attack_attrs.keys
            THEN attack_attrs.modified_indices
            ELSE {},
        newly_modified_indices |-> attack_attrs.newly_modified_indices,
        previous_attacked_text |-> attack_attrs.previous_attacked_text]

----------------------------------------------------------------------------
(* The span locator. *)

\* _text_index_of_word_index: the loop over pre_words = words[:i+1]; each
\* search starts at the offset where the previous word was found.
RECURSIVE FindPreWords(_, _, _, _)
FindPreWords(lower_text, pre_words, k, look_after_index) ==
    IF k > Len(pre_words) THEN look_after_index
    ELSE FindPreWords(lower_text, pre_words, k + 1,
                      Find(lower_text, LowerText(pre_words[k]), look_after_index))

text_index_of_word_index(self, i) ==
    FindPreWords(LowerText(self.text), Take(self.words, i + 1), 1, 0)

\* text[a:b] with Python's treatment of a negative bound (counted from the end).
PyIndex(text, a) == IF a < 0 THEN (IF Len(text) + a < 0 THEN 0 ELSE Len(text) + a)
                    ELSE IF a > Len(text) THEN Len(text) ELSE a

text_until_word_index(self, i) ==
    Take(self.text, PyIndex(self.text, text_index_of_word_index(self, i)))

text_after_word_index(self, i) ==
    Drop(self.text,
         PyIndex(self.text, text_index_of_word_index(self, i) + Len(self.words[i + 1])))

\* convert_from_original_idxs, for a list of ints.
convert_from_original_idxs(self, idxs) ==
    IF Len(self.original_index_map) = 0 THEN idxs
    ELSE [k \in 1..Len(idxs) |-> self.original_index_map[idxs[k] + 1]]

----------------------------------------------------------------------------
(* replace_new_words. *)

\* Lines 285-293: the modified indices re-calculated for a change of the word
\* count at loop index i.
ShiftModifiedIndices(modified_indices, i, num_words_diff) ==
    {m \in modified_indices : m < i}
        \cup {m + num_words_diff : m \in {x \in modified_indices : x > i}}

\* ShiftIndexMap with the entry of a deleted word removed from the map, so
\* that the map follows the current word count.
ShiftIndexMapDropping(original_index_map, i, num_words_diff) ==
    LET Kept(x) == ~(num_words_diff = -1 /\ x = i)
        kept == SelectSeq(original_index_map, Kept)
    IN [k \in 1..Len(kept) |->
           IF kept[k] > i THEN kept[k] + num_words_diff ELSE kept[k]]

\* ShiftIndexMap with the comparison new_idx_map >= i in place of > i.
ShiftIndexMapInclusive(original_index_map, i, num_words_diff) ==
    LET deleted == [k \in 1..Len(original_index_map) |->
                       IF num_words_diff = -1 /\ original_index_map[k] = i
                       THEN -1 ELSE original_index_map[k]]
    IN [k \in 1..Len(deleted) |->
           IF deleted[k] >= i THEN deleted[k] + num_words_diff ELSE deleted[k]]

\* Lines 296-300: new_idx_map[new_idx_map == i] = -1 for a deletion, then
\* new_idx_map[new_idx_map > i] += num_words_diff.
ShiftIndexMap(original_index_map, i, num_words_diff) ==
    LET deleted == [k \in 1..Len(original_index_map) |->
                       IF num_words_diff = -1 /\ original_index_map[k] = i
                       THEN -1 ELSE original_index_map[k]]
    IN [k \in 1..Len(deleted) |->
           IF deleted[k] > i THEN deleted[k] + num_words_diff ELSE deleted[k]]

\* MarkedIndices without the test input_word != adv_word_seq.
MarkedIndicesUnguarded(input_word, adv_word_seq, new_i, adv_num_words) ==
    new_i..(new_i + adv_num_words - 1)

\* Lines 302-306: the indices new_i .. new_i + adv_num_words - 1 are marked
\* when the replacement string differs from the word.
MarkedIndices(input_word, adv_word_seq, new_i, adv_num_words) ==
    IF input_word # adv_word_seq
    THEN new_i..(new_i + adv_num_words - 1)
    ELSE {}

\* Lines 308-319: the space taken out for a deleted word.  The result holds
\* both texts and the IndexError of reading a character of an empty string.
TrimSpace(i, adv_num_words, perturbed_text, original_text) ==
    IF adv_num_words # 0
    THEN [err |-> "ok", perturbed_text |-> perturbed_text,
          original_text |-> original_text]
    ELSE IF i = 0
    THEN IF original_text = <<>>
         THEN [err |-> "IndexError_string", perturbed_text |-> perturbed_text,
               original_text |-> original_text]
         ELSE [err |-> "ok", perturbed_text |-> perturbed_text,
               original_text |-> IF original_text[1] = Space
                                 THEN Drop(original_text, 1)
                                 ELSE original_text]
    ELSE IF perturbed_text = <<>>
         THEN [err |-> "IndexError_string", perturbed_text |-> perturbed_text,
               original_text |-> original_text]
         ELSE [err |-> "ok",
               perturbed_text |-> IF Last(perturbed_text) = Space
                                  THEN Take(perturbed_text, Len(perturbed_text) - 1)
                                  ELSE perturbed_text,
               original_text |-> original_text]

\* FinishText without the rest of the text.
FinishTextWithoutRest(perturbed_text, original_text) == perturbed_text

\* Line 322: the rest of the text (the ending punctuation) is appended.
FinishText(perturbed_text, original_text) == perturbed_text \o original_text

\* Lines 275-321: one pass of the loop, for loop index i, on the loop's
\* variables st.
LoopBody(self, new_words, i, st) ==
    LET input_word == self.words[i + 1]
        adv_word_seq == new_words[i + 1]
        word_start == Find(st.original_text, input_word, 0)
        word_end == word_start + Len(input_word)
        perturbed_text == st.perturbed_text \o Take(st.original_text, word_start)
        original_text == Drop(st.original_text, word_end)
        adv_num_words == Len(words_from_text(adv_word_seq))
        num_words_diff == adv_num_words - Len(words_from_text(input_word))
        shifted == IF num_words_diff # 0
                   THEN ShiftModifiedIndices(st.modified_indices, i, num_words_diff)
                   ELSE st.modified_indices
        new_idx_map == IF num_words_diff # 0
                       THEN ShiftIndexMap(st.original_index_map, i, num_words_diff)
                       ELSE st.original_index_map
        marked == MarkedIndices(input_word, adv_word_seq, st.new_i, adv_num_words)
        trimmed == TrimSpace(i, adv_num_words, perturbed_text, original_text)
    IN IF word_start = -1
       THEN [st EXCEPT !.err = "ValueError_index"]
       ELSE [err |-> trimmed.err,
             perturbed_text |-> trimmed.perturbed_text \o adv_word_seq,
             original_text |-> trimmed.original_text,
             modified_indices |-> shifted \cup marked,
             newly_modified_indices |-> st.newly_modified_indices \cup marked,
             original_index_map |-> new_idx_map,
             new_i |-> st.new_i + adv_num_words]

RECURSIVE Loop(_, _, _, _)
Loop(self, new_words, i, st) ==
    IF st.err # "ok" \/ i >= Len(self.words) \/ i >= Len(new_words)
    THEN st
    ELSE Loop(self, new_words, i + 1, LoopBody(self, new_words, i, st))

\* replace_new_words, called on the snapshot at position `at` of the chain:
\* [err, snap].  snap is meaningful when err = "ok".
replace_new_words(self, at, new_words) ==
    LET st0 == [err |-> "ok",
                perturbed_text |-> <<>>,
                original_text |-> self.text,
                modified_indices |-> self.modified_indices,
                newly_modified_indices |-> {},
                original_index_map |-> self.original_index_map,
                new_i |-> 0]
        st == Loop(self, new_words, 0, st0)
        new_attack_attrs ==
            [keys |-> {"newly_modified_indices", "previous_attacked_text",
                       "modified_indices", "original_index_map"},
             original_index_map |-> st.original_index_map,
             modified_indices |-> st.modified_indices,
             newly_modified_indices |-> st.newly_modified_indices,
             previous_attacked_text |-> at]
    IN [err |-> st.err,
        snap |-> AttackedText(FinishText(st.perturbed_text, st.original_text),
                              new_attack_attrs)]

----------------------------------------------------------------------------
(* replace_words_at_indices and the methods that delegate to it. *)

\* Lines 201-215: the loop over zip(indices, new_words) that assigns the new
\* words into a copy of the word list.
RECURSIVE AssignWords(_, _, _, _)
AssignWords(words, indices, new_words, k) ==
    IF k > Len(indices) \/ k > Len(new_words)
    THEN [err |-> "ok", words |-> words]
    ELSE IF indices[k] < 0 \/ indices[k] > Len(words)
    THEN [err |-> "ValueError_range", words |-> words]
    ELSE IF indices[k] >= Len(words)
    THEN [err |-> "IndexError_list", words |-> words]
    ELSE AssignWords([words EXCEPT ![indices[k] + 1] = new_words[k]],
                     indices, new_words, k + 1)

replace_words_at_indices(self, at, indices, new_words) ==
    IF Len(indices) # Len(new_words)
    THEN [err |-> "ValueError_count", snap |-> self]
    ELSE LET assigned == AssignWords(self.words, indices, new_words, 1)
         IN IF assigned.err # "ok"
            THEN [err |-> assigned.err, snap |-> self]
            ELSE replace_new_words(self, at, assigned.words)

replace_word_at_index(self, at, index, new_word) ==
    replace_words_at_indices(self, at, <<index>>, <<new_word>>)

delete_word_at_index(self, at, index) ==
    replace_word_at_index(self, at, index, <<>>)

----------------------------------------------------------------------------
(* __eq__ . *)

\* Lines 67-77: the loop over the keys of self.attack_attrs, for the
\* snapshots at positions a and b of the chain.  The previous snapshots are
\* compared by __eq__ again.
RECURSIVE Eq(_, _, _)
Eq(ch, a, b) ==
    LET self == ch[a]
        other == ch[b]
    IN /\ self.text = other.text
       /\ \A key \in self.keys :
            /\ key \in other.keys
            /\ key = "original_index_map" =>
                 /\ Len(self.original_index_map) = Len(other.original_index_map)
                 /\ self.original_index_map = other.original_index_map
            /\ key = "modified_indices" =>
                 self.modified_indices = other.modified_indices
            /\ key = "newly_modified_indices" =>
                 self.newly_modified_indices = other.newly_modified_indices
            /\ key = "previous_attacked_text" =>
                 Eq(ch, self.previous_attacked_text, other.previous_attacked_text)

----------------------------------------------------------------------------
(* The inputs the calls are made with. *)

SeqsUpTo(S, n) == UNION {[1..k -> S] : k \in 0..n}

\* The raw strings roots are constructed from.
RootInputs == SeqsUpTo(Alphabet, MaxTextLen) \cup {DocExample}

\* The new_word arguments of replace_word_at_index: a word, a different
\* word, a word with punctuation, two words.
NewWordChoices == {<<"a">>, <<"b">>, <<"a", ".">>, <<"a", " ", "b">>}

\* The new_words of a call of replace_words_at_indices on two indices: a
\* deletion or an insertion at each.
EditChoices == {<<>>, <<"a", " ", "b">>}

NoCall == [op |-> "init", indices |-> <<>>, new_words |-> <<>>]

Tip == chain[Len(chain)]

\* Indices outside [0, len(words)): -1, len(words) and len(words) + 1.
OutOfRange == {-1, Len(Tip.words), Len(Tip.words) + 1}

\* The arguments of replace_word_at_index: every valid index with every
\* choice of new word, and each index out of range (the call raises before
\* it reads the new word).
WordEdits ==
    ((0..(Len(Tip.words) - 1)) \X NewWordChoices) \cup (OutOfRange \X {<<"a">>})

\* The arguments of replace_words_at_indices: two ascending valid indices
\* with every choice of two edits, two ascending indices of which the second
\* is len(words), and two indices with one new word.
PairEdits ==
    LET valid == {p \in (0..(Len(Tip.words) - 1)) \X (0..(Len(Tip.words) - 1)) :
                     p[1] < p[2]}
    IN (valid \X [1..2 -> EditChoices])
         \cup {<<<<i, Len(Tip.words)>>, <<<<>>, <<>>>>>> : i \in 0..(Len(Tip.words) - 1)}
         \cup {<<<<0, 1>>, <<<<>>>>>>}

----------------------------------------------------------------------------
(* The state machine: a root is constructed, then methods are called on   *)
(* the newest snapshot of the lineage.  No caller in the source catches an *)
(* exception of these methods: a call that raises ends the run.            *)

\* A further call can be made.
Running == err = "ok" /\ Len(calls) < MaxChain

Init ==
    /\ \E text_input \in RootInputs :
          chain = <<AttackedText(text_input, NoAttrs)>>
    /\ calls = <<>>
    /\ call = NoCall
    /\ err = "ok"

\* The call c was made and ended as r says: a returned snapshot joins the
\* lineage, an exception leaves it as it was.
Returns(c, r) ==
    /\ call' = c
    /\ err' = r.err
    /\ IF r.err = "ok"
       THEN /\ chain' = Append(chain, r.snap)
            /\ calls' = Append(calls, c)
       ELSE UNCHANGED <<chain, calls>>

ReplaceWordAtIndex ==
    /\ Running
    /\ \E edit \in WordEdits :
          Returns([op |-> "replace_word_at_index",
                   indices |-> <<edit[1]>>, new_words |-> <<edit[2]>>],
                  replace_word_at_index(Tip, Len(chain), edit[1], edit[2]))

DeleteWordAtIndex ==
    /\ Running
    /\ \E index \in (0..(Len(Tip.words) - 1)) \cup OutOfRange :
          Returns([op |-> "delete_word_at_index",
                   indices |-> <<index>>, new_words |-> <<<<>>>>],
                  delete_word_at_index(Tip, Len(chain), index))

ReplaceWordsAtIndices ==
    /\ Running
    /\ \E edit \in PairEdits :
          Returns([op |-> "replace_words_at_indices",
                   indices |-> edit[1], new_words |-> edit[2]],
                  replace_words_at_indices(Tip, Len(chain), edit[1], edit[2]))

\* replace_new_words called with the snapshot's own words.
ReplaceNewWords ==
    /\ Running
    /\ Returns([op |-> "replace_new_words",
                indices |-> <<>>, new_words |-> Tip.words],
               replace_new_words(Tip, Len(chain), Tip.words))

Next ==
    \/ ReplaceWordAtIndex
    \/ DeleteWordAtIndex
    \/ ReplaceWordsAtIndices
    \/ ReplaceNewWords

Spec == Init /\ [][Next]_vars

----------------------------------------------------------------------------
(* Notions the properties are stated with. *)

Root == chain[1]

\* The snapshot the most recent call was made on.
CallTarget == IF err = "ok" /\ Len(chain) > 1 THEN chain[Len(chain) - 1] ELSE Tip

ValidIndices(snap) == 0..(Len(snap.words) - 1)

NumWords(w) == Len(words_from_text(w))

\* The change of position that the edits e..Len(c.indices) of call c at
\* positions before p cause.
RECURSIVE ShiftBefore(_, _, _)
ShiftBefore(c, p, e) ==
    IF e > Len(c.indices) THEN 0
    ELSE (IF c.indices[e] < p THEN NumWords(c.new_words[e]) - 1 ELSE 0)
             + ShiftBefore(c, p, e + 1)

\* Where the root's word k stands after the first n calls of the lineage,
\* or -1 once a call has edited or deleted it.
RECURSIVE TruePosition(_, _)
TruePosition(k, n) ==
    IF n = 0 THEN k
    ELSE LET p == TruePosition(k, n - 1)
             c == calls[n]
         IN IF p = -1 THEN -1
            ELSE IF c.op = "replace_new_words" THEN p
            ELSE IF \E e \in 1..Len(c.indices) : c.indices[e] = p THEN -1
            ELSE p + ShiftBefore(c, p, 1)

\* The offsets at which the words of a text start, in document order.
RECURSIVE Ascending(_)
Ascending(S) ==
    IF S = {} THEN <<>> ELSE <<MinOf(S)>> \o Ascending(S \ {MinOf(S)})

WordStarts(s) ==
    Ascending({p \in 0..(Len(s) - 1) :
                  /\ IsWordChar(s[p + 1])
                  /\ (p = 0 \/ ~IsWordChar(s[p]))})

\* The words at the positions of `words` that are not in `deleted`.
RECURSIVE Undeleted(_, _, _)
Undeleted(words, deleted, k) ==
    IF k > Len(words) THEN <<>>
    ELSE (IF (k - 1) \in deleted THEN <<>> ELSE <<words[k]>>)
             \o Undeleted(words, deleted, k + 1)

\* Every call so far replaced each word by exactly one word.
SubstitutionChain ==
    \A n \in 1..Len(calls) :
        \A e \in 1..Len(calls[n].new_words) : NumWords(calls[n].new_words[e]) = 1

\* The positions whose word differs from the root's word at that position.
DiffersFromRoot(snap) ==
    {i \in ValidIndices(snap) :
        i >= Len(Root.words) \/ snap.words[i + 1] # Root.words[i + 1]}

\* The list of replacement strings that call n of the lineage handed to
\* replace_new_words.
GivenWords(n) ==
    IF calls[n].op = "replace_new_words"
    THEN calls[n].new_words
    ELSE AssignWords(chain[n].words, calls[n].indices, calls[n].new_words, 1).words

\* The positions at which some call of the lineage was given a replacement
\* string different from the word it replaced.
ChangedByRewrite ==
    {i \in ValidIndices(Tip) :
        \E n \in 1..Len(calls) :
            /\ i < Len(chain[n].words)
            /\ GivenWords(n)[i + 1] # chain[n].words[i + 1]}

\* The joined text and every bookkeeping field present on either snapshot
\* is present and equal on both.
RECURSIVE SameFields(_, _)
SameFields(a, b) ==
    /\ chain[a].text = chain[b].text
    /\ chain[a].keys = chain[b].keys
    /\ chain[a].original_index_map = chain[b].original_index_map
    /\ chain[a].modified_indices = chain[b].modified_indices
    /\ chain[a].newly_modified_indices = chain[b].newly_modified_indices
    /\ "previous_attacked_text" \in chain[a].keys =>
          SameFields(chain[a].previous_attacked_text,
                     chain[b].previous_attacked_text)

----------------------------------------------------------------------------
(* The properties. *)

\* C1 (as stated): in every snapshot of the lineage the length of
\* original_index_map equals the number of words of that snapshot.
C1_MapLengthIsWordCount ==
    \A k \in 1..Len(chain) :
        Len(chain[k].original_index_map) = Len(chain[k].words)

\* C1 (amended): in every snapshot of the lineage the length of
\* original_index_map equals the number of words of the root.
C1_MapLengthIsRootWordCount ==
    \A k \in 1..Len(chain) :
        Len(chain[k].original_index_map) = Len(Root.words)

\* A snapshot derived by a deletion and an insertion whose word count differs
\* from the root's.
C1_Witness ==
    /\ Len(chain) = 3
    /\ \E n \in 1..2 : calls[n].op = "delete_word_at_index"
    /\ \E n \in 1..2 : calls[n].new_words = <<<<"a", " ", "b">>>>
    /\ Len(chain[2].words) # Len(Root.words)
    /\ Len(Tip.words) = Len(Root.words)
    /\ Len(Root.words) >= 2

\* C2: for every word index k of the root whose word no call of the lineage
\* edited or deleted, original_index_map[k] of the newest snapshot is not -1
\* and is the position of that same word: convert_from_original_idxs([k])
\* returns where the root's word k stands now.
C2_UneditedWordsAreTracked ==
    \A k \in ValidIndices(Root) :
        TruePosition(k, Len(calls)) # -1 =>
            LET m == convert_from_original_idxs(Tip, <<k>>)[1]
            IN /\ m # -1
               /\ m \in ValidIndices(Tip)
               /\ Tip.words[m + 1] = Root.words[k + 1]
               /\ m = TruePosition(k, Len(calls))

\* C3: a returned call of replace_word_at_index or delete_word_at_index at
\* index i that changes the word count by d increases every map entry
\* greater than i by d, sets an entry equal to i to -1 exactly when d = -1,
\* and leaves every other entry; deleting index 1 of the four-word example
\* gives [0, -1, 1, 2], and a substitution leaves the map as it was.
C3_SingleEditShiftsMap ==
    (/\ err = "ok"
     /\ call.op \in {"replace_word_at_index", "delete_word_at_index"}) =>
        LET old == chain[Len(chain) - 1]
            i == call.indices[1]
            d == Len(Tip.words) - Len(old.words)
        IN /\ Len(Tip.original_index_map) = Len(old.original_index_map)
           /\ \A k \in 1..Len(old.original_index_map) :
                Tip.original_index_map[k] =
                    IF old.original_index_map[k] > i
                    THEN old.original_index_map[k] + d
                    ELSE IF old.original_index_map[k] = i /\ d = -1
                    THEN -1
                    ELSE old.original_index_map[k]
           /\ d = 0 => Tip.original_index_map = old.original_index_map
           /\ (/\ Len(chain) = 2
               /\ Len(old.words) = 4
               /\ call.op = "delete_word_at_index"
               /\ i = 1) => Tip.original_index_map = <<0, -1, 1, 2>>

\* Index 1 of "The quick fox jumps." is deleted: "The fox jumps." with the
\* map [0, -1, 1, 2].
C3_Witness ==
    /\ Len(chain) = 2
    /\ Root.text = DocExample
    /\ call = [op |-> "delete_word_at_index", indices |-> <<1>>,
               new_words |-> <<<<>>>>]
    /\ err = "ok"
    /\ Tip.text = <<"T", "h", "e", " ", "f", "o", "x", " ",
                    "j", "u", "m", "p", "s", ".">>
    /\ Tip.original_index_map = <<0, -1, 1, 2>>

\* C4 (as stated): after a chain of one-word substitutions modified_indices
\* is exactly the set of positions whose word differs from the root's word
\* at that position.
C4_ModifiedIsDiffFromRoot ==
    SubstitutionChain => Tip.modified_indices = DiffersFromRoot(Tip)

\* C4 (amended): after a chain of one-word substitutions modified_indices is
\* exactly the set of positions at which some rewrite of the chain was given
\* a replacement string different from the word it replaced; it contains
\* every position whose word differs from the root's.
C4_ModifiedIsChangedByRewrite ==
    SubstitutionChain =>
        /\ Tip.modified_indices = ChangedByRewrite
        /\ DiffersFromRoot(Tip) \subseteq Tip.modified_indices

\* A word is substituted and then the root's word is substituted back.
C4_Witness ==
    /\ Len(chain) = 3
    /\ SubstitutionChain
    /\ chain[2].words # Root.words
    /\ Tip.words = Root.words
    /\ Tip.modified_indices # {}

\* C5: replace_new_words called on a snapshot with the snapshot's own words
\* returns a snapshot with the same text, words, modified_indices and
\* original_index_map, and an empty newly_modified_indices.  (Every
\* snapshot of a lineage is the newest one in an earlier state.)
C5_IdentityRewriteIsNoOp ==
    LET r == replace_new_words(Tip, Len(chain), Tip.words)
    IN /\ r.err = "ok"
       /\ r.snap.text = Tip.text
       /\ r.snap.words = Tip.words
       /\ r.snap.modified_indices = Tip.modified_indices
       /\ r.snap.original_index_map = Tip.original_index_map
       /\ r.snap.newly_modified_indices = {}

\* The identity rewrite of a snapshot that has modified indices and a
\* deleted root word.
C5_Witness ==
    /\ Len(chain) = 3
    /\ call.op = "replace_new_words"
    /\ err = "ok"
    /\ chain[2].modified_indices # {}
    /\ \E k \in 1..Len(chain[2].original_index_map) :
          chain[2].original_index_map[k] = -1
    /\ Tip.text = chain[2].text
    /\ Tip.modified_indices = chain[2].modified_indices
    /\ Tip.newly_modified_indices = {}

\* C6: a call of replace_words_at_indices, replace_word_at_index or
\* delete_word_at_index with an index outside [0, len(words)) ends with the
\* ValueError of the range check.
C6_OutOfRangeIsValueError ==
    (/\ call.op \in {"replace_words_at_indices", "replace_word_at_index",
                     "delete_word_at_index"}
     /\ Len(call.indices) = Len(call.new_words)
     /\ \E e \in 1..Len(call.indices) :
           call.indices[e] \notin ValidIndices(CallTarget)) =>
        err = "ValueError_range"

\* C7: a == b exactly when the joined texts are equal and every bookkeeping
\* field present on either snapshot is present and equal on both; a == b and
\* b == a give the same answer.
C7_EqIsFieldEqualityAndSymmetric ==
    \A a \in 1..Len(chain), b \in 1..Len(chain) :
        /\ Eq(chain, a, b) <=> SameFields(a, b)
        /\ Eq(chain, a, b) <=> Eq(chain, b, a)

\* C8: _text_index_of_word_index(i) is the offset at which the i-th word
\* starts in the text, text_until_word_index(i) is the text before that
\* offset and text_after_word_index(i) the text after the word.
C8_SpanLocatorFindsWord ==
    \A k \in 1..Len(chain) :
        \A i \in ValidIndices(chain[k]) :
            LET start == WordStarts(chain[k].text)[i + 1]
            IN /\ text_index_of_word_index(chain[k], i) = start
               /\ text_until_word_index(chain[k], i) = Take(chain[k].text, start)
               /\ text_after_word_index(chain[k], i) =
                     Drop(chain[k].text, start + Len(chain[k].words[i + 1]))

\* C9: in every snapshot a rewrite returned, newly_modified_indices is a
\* subset of modified_indices.
C9_NewlyModifiedWithinModified ==
    \A k \in 2..Len(chain) :
        chain[k].newly_modified_indices \subseteq chain[k].modified_indices

\* C10: a call that deletes a non-empty set of distinct valid word indices
\* returns a snapshot whose words are the undeleted words in their order.
C10_DeletionNeverFails ==
    (/\ call.op \in {"delete_word_at_index", "replace_words_at_indices"}
     /\ Len(call.indices) = Len(call.new_words)
     /\ \A e \in 1..Len(call.indices) :
           /\ call.new_words[e] = <<>>
           /\ call.indices[e] \in ValidIndices(CallTarget)) =>
        /\ err = "ok"
        /\ Tip.words = Undeleted(chain[Len(chain) - 1].words,
                                 {call.indices[e] : e \in 1..Len(call.indices)}, 1)

====
